---- MODULE Spec2Model ----
(***************************************************************************)
(* Batched beam search (universal_ml_utils/decoding/beam.py, beam_search). *)
(* The generator is modelled as a state machine over its three per-element *)
(* beam lists; one action per block of the generator body:                 *)
(*   Start   lines  44- 69  configuration asserts, initial beam lists      *)
(*   Filter  lines  79-133  filter_beams()   (lines 150 and 240)           *)
(*   Expand  lines 153-238  one round: decode, sample, children, pruning   *)
(*   Yield   lines 242-243  yield get_outputs()                            *)
(*   Return  line  245      return get_outputs()                           *)
(***************************************************************************)
EXTENDS Integers, Sequences, FiniteSets, TLC

\* ---------------------------------------------------------------- bounds
MaxBatch      == 2   \* largest number of batch elements in `initial`
MaxSeedLen    == 2   \* longest initial token sequence
MaxMaxLength  == 4   \* largest value of max_length
MaxPairLength == 3   \* largest max_length with more than one batch element
MaxWidth      == 2   \* largest value of beam_width
MaxNewTok     == 1   \* largest value of max_new_tokens
MaxDeepLength == 5   \* largest max_length of the runs of SpecScores

\* ------------------------------------------------------- the environment
EosToken == 3                       \* the token stop_fn recognises
Tokens   == {1, 2, EosToken}        \* vocabulary of the decode callback

\* float("-inf") as a logit
NegInf == -100

\* the logit filters a call may pass in logit_fns
LogitFns == {"eos_after_2", "argmax"}

StopConditions == {"max_score", "estimated_score", "max_outputs"}

VARIABLES
    \* the arguments of the call (fixed by Init)
    initial, max_length, beam_width, stop_condition, max_new_tokens,
    yield_intermediate, return_unfinished,
    logit_fns,        \* the list of logit filters (<<>> for None)
    cache_fn,         \* {} for None, {"reorder"} when a cache_fn is passed
    pad_token_id,
    use_cache,        \* whether decode_fn returns a cache or None
    \* the generator's locals
    pc,               \* position in the generator body
    current_beams,    \* per batch element: alive beams
    finished_beams,   \* per batch element: finished beams
    too_long_beams,   \* per batch element: beams stopped by the length caps
    outputs,          \* last list produced by get_outputs (yielded or returned)
    cache,            \* {} for None, {rows} for the cache decode_fn returned:
                      \* rows[i] is the token history row i encodes
    \* observers
    results,          \* number of snapshots / results produced so far
    decode_calls,     \* number of decode_fn invocations so far
    expanded,         \* per batch element: rounds in which it had a beam decoded
    settled,          \* elements without alive beams when `outputs` was assembled
    nextId            \* identity of the next Beam object to be created

config == <<initial, max_length, beam_width, stop_condition, max_new_tokens,
            yield_intermediate, return_unfinished, logit_fns, cache_fn,
            pad_token_id, use_cache>>
lists  == <<current_beams, finished_beams, too_long_beams>>
vars   == <<config, lists, pc, outputs, cache, results, decode_calls,
            expanded, settled, nextId>>

\* ---------------------------------------------------------------- helpers
Min(a, b) == IF a <= b THEN a ELSE b
Max(a, b) == IF a >= b THEN a ELSE b

Range(s) == {s[k] : k \in DOMAIN s}

Take(s, n) == SubSeq(s, 1, Min(n, Len(s)))

RECURSIVE SeqSum(_)
SeqSum(s) == IF s = <<>> THEN 0 ELSE Head(s) + SeqSum(Tail(s))

RECURSIVE Concat(_)
Concat(ss) == IF ss = <<>> THEN <<>> ELSE Head(ss) \o Concat(Tail(ss))

RECURSIVE Factorial(_)
Factorial(n) == IF n <= 1 THEN 1 ELSE n * Factorial(n - 1)

SeqsUpTo(S, n) == UNION {[1..k -> S] : k \in 0..n}

\* ------------------------------------------------------------------ Beam
\* A Beam object: identity, token history, per-token log-probabilities,
\* length of the seed, the reason it left the alive set, and its cache slot
\* ({} for None, {i} for row i, counted from 0).
Beam(token_ids, id) ==
    [id             |-> id,
     token_ids      |-> token_ids,
     log_probs      |-> [k \in 1..Len(token_ids) |-> 0],
     initial_length |-> Len(token_ids),
     stop_reason    |-> "none",
     cache          |-> {}]

BeamLen(b)        == Len(b.token_ids)
decoded_length(b) == BeamLen(b) - b.initial_length
last_token_id(b)  == b.token_ids[BeamLen(b)]

\* clone(): an independent copy with a fresh identity
Clone(b, id) == [b EXCEPT !.id = id]

\* add(token_id, log_prob): append one token, in place
Add(b, token_id, log_p) ==
    [b EXCEPT !.token_ids = Append(@, token_id),
              !.log_probs = Append(@, log_p)]

\* ------------------------------------------------------------- callbacks
\* stop_fn: the last token is the end-of-sequence marker
stop_fn(b) == last_token_id(b) = EosToken

\* score_fn (default log_likelihood_score): cumulative log-likelihood of the
\* decoded tokens divided by a length (the decoded length unless one is
\* given).  Scores are kept as integers scaled by ScoreScale, a common
\* multiple of every length that can occur, so the order is exact.
ScoreScale == Factorial(MaxMaxLength + MaxSeedLen)

ScoreAt(b, length) ==
    (SeqSum(b.log_probs) * ScoreScale) \div Max(1, length)

score_fn(b) == ScoreAt(b, decoded_length(b))

\* update_fn: a hook that rejects a candidate whose last two decoded tokens
\* are the same; the result is <<beam>>, or <<>> for None
update_fn(b) ==
    IF decoded_length(b) >= 2 /\ b.token_ids[BeamLen(b) - 1] = last_token_id(b)
    THEN <<>> ELSE <<b>>

\* decode_fn: the logits of a row, as logarithms to base b = 1 + sqrt(2),
\* for which b^-1 + b^-2 + b^-1 = 1 (token 2 is the less likely
\* continuation)
decode_logits == [t \in Tokens |-> IF t = 2 THEN -2 ELSE -1]

\* b^logit for a logit <= 0, exactly: <<x, y>> stands for x + y * sqrt(2)
RECURSIVE BasePow(_)
BasePow(logit) ==
    IF logit = 0 THEN <<1, 0>>
    ELSE LET q == BasePow(logit + 1)
         IN  <<2 * q[2] - q[1], q[1] - q[2]>>

Weight(logit) == IF logit = NegInf THEN <<0, 0>> ELSE BasePow(logit)

\* torch.log_softmax of a row, to base b
log_softmax(row) ==
    LET weights == [t \in 1..Cardinality(Tokens) |-> Weight(row[t])]
        total   == <<SeqSum([t \in DOMAIN weights |-> weights[t][1]]),
                     SeqSum([t \in DOMAIN weights |-> weights[t][2]])>>
        log_sum == CHOOSE l \in -2..0 : BasePow(l) = total
    IN  [t \in Tokens |-> IF row[t] = NegInf THEN NegInf ELSE row[t] - log_sum]

\* log_probs[i, token_id] of line 193
LogProbOf(token_id) == log_softmax(decode_logits)[token_id]

\* one logit filter applied to the row of `beam`: "eos_after_2" leaves only
\* the end-of-sequence token after token 2, "argmax" leaves only the first
\* token with the largest logit of the row
logit_fn(name, row, beam) ==
    IF name = "eos_after_2"
    THEN [t \in Tokens |->
             IF t # EosToken /\ last_token_id(beam) = 2 THEN NegInf
             ELSE row[t]]
    ELSE LET best  == CHOOSE x \in Range(row) : \A y \in Range(row) : x >= y
             first == CHOOSE t \in Tokens :
                          row[t] = best /\ \A u \in Tokens : row[u] = best => t <= u
         IN  [t \in Tokens |->
                 IF t = first /\ best # NegInf THEN row[t] ELSE NegInf]

\* lines 196-197: the filters of the list fns applied in list order
RECURSIVE Filtered(_, _, _)
Filtered(fns, row, beam) ==
    IF fns = <<>> THEN row
    ELSE Filtered(Tail(fns), logit_fn(Head(fns), row, beam), beam)

\* lines 192-197: the logits of the row of `beam` after the logit filters
FilteredRow(beam) == Filtered(logit_fns, decode_logits, beam)

\* sample_fn(logits, k) for one row: k distinct token ids (fixed shape),
\* each with its logit, or with -inf where the strategy masks it
Samples(row, k) ==
    {s \in [1..Min(k, Cardinality(Tokens)) ->
                [token_id : Tokens, logit : {NegInf, -2, -1}]] :
        /\ \A x, y \in DOMAIN s : x # y => s[x].token_id # s[y].token_id
        /\ \A x \in DOMAIN s : s[x].logit \in {NegInf, row[s[x].token_id]}}

\* the sampled token ids without the -inf mask
valid_ids_unmasked(s) == [k \in DOMAIN s |-> s[k].token_id]

\* lines 202 and 211: selected_ids[i, valid_ids[i]], the sampled token ids
\* whose logit is not -inf
valid_ids(s) ==
    LET valid == SelectSeq(s, LAMBDA e : e.logit # NegInf)
    IN  [k \in DOMAIN valid |-> valid[k].token_id]

\* the valid candidates sample_fn can give for a row: at most k distinct
\* tokens the filters left, in any order
CandSeqs(row, k) == {valid_ids(s) : s \in Samples(row, k)}

\* sorted(beams, key=score_fn, reverse=True): stable, best first
RECURSIVE SortDesc(_)
SortDesc(s) ==
    IF Len(s) <= 1 THEN s
    ELSE LET r == SortDesc(SubSeq(s, 1, Len(s) - 1))
             x == s[Len(s)]
             k == Cardinality({j \in DOMAIN r : score_fn(r[j]) >= score_fn(x)})
         IN  SubSeq(r, 1, k) \o <<x>> \o SubSeq(r, k + 1, Len(r))

MinOf(S) == CHOOSE x \in S : \A y \in S : x <= y
MaxOf(S) == CHOOSE x \in S : \A y \in S : x >= y

\* ------------------------------------------------------------ beam_search
batch_size == Len(initial)
Batch      == 1..batch_size
single     == beam_width = 1

too_long(b) ==
    IF BeamLen(b) >= max_length THEN TRUE
    ELSE IF max_new_tokens = {} THEN FALSE
    ELSE \E m \in max_new_tokens : decoded_length(b) >= m

\* the three branches of the classification loop of filter_beams
StopReason(b) ==
    IF stop_fn(b) THEN "done" ELSE IF too_long(b) THEN "length" ELSE "none"

Stopped(s, reason) ==
    LET sel == SelectSeq(s, LAMBDA b : StopReason(b) = reason)
    IN  [k \in DOMAIN sel |-> [sel[k] EXCEPT !.stop_reason = reason]]

new_beams(s) == SelectSeq(s, LAMBDA b : StopReason(b) = "none")

\* the early-termination check asking for some finished beam, not for
\* beam_width of them
Abandon_any_finished(alive, finished) ==
    IF alive = <<>> THEN FALSE
    ELSE IF finished = <<>> THEN FALSE
    ELSE IF stop_condition = "max_outputs" THEN TRUE
    ELSE MinOf({score_fn(b) : b \in Range(finished)})
             >= MaxOf({score_fn(b) : b \in Range(alive)})

\* the early-termination check without the branch for "max_outputs"
AbandonUnder_scores_only(condition, alive, finished) ==
    IF alive = <<>> THEN FALSE
    ELSE IF Len(finished) < beam_width THEN FALSE
    ELSE LET worst_finished == MinOf({score_fn(b) : b \in Range(finished)})
             max_decoded_length == max_length - alive[1].initial_length
             length == IF max_new_tokens = {} THEN max_decoded_length
                       ELSE Min(max_decoded_length,
                                CHOOSE m \in max_new_tokens : TRUE)
             best_current ==
                 IF condition = "estimated_score"
                 THEN MaxOf({score_fn(b) : b \in Range(alive)})
                 ELSE MaxOf({ScoreAt(b, length) : b \in Range(alive)})
         IN  worst_finished >= best_current

\* the early-termination check projecting to the tokens the first alive
\* beam has left, not to the longest decoded length
AbandonUnder_remaining_length(condition, alive, finished) ==
    IF alive = <<>> THEN FALSE
    ELSE IF Len(finished) < beam_width THEN FALSE
    ELSE IF condition = "max_outputs" THEN TRUE
    ELSE LET worst_finished == MinOf({score_fn(b) : b \in Range(finished)})
             max_decoded_length == max_length - BeamLen(alive[1])
             length == IF max_new_tokens = {} THEN max_decoded_length
                       ELSE Min(max_decoded_length,
                                CHOOSE m \in max_new_tokens : TRUE)
             best_current ==
                 IF condition = "estimated_score"
                 THEN MaxOf({score_fn(b) : b \in Range(alive)})
                 ELSE MaxOf({ScoreAt(b, length) : b \in Range(alive)})
         IN  worst_finished >= best_current

\* the early-termination check of filter_beams under stop condition
\* `condition`: TRUE iff the alive beams `alive` of an element whose
\* finished list is `finished` are cleared
AbandonUnder(condition, alive, finished) ==
    IF alive = <<>> THEN FALSE
    ELSE IF Len(finished) < beam_width THEN FALSE
    ELSE IF condition = "max_outputs" THEN TRUE
    ELSE LET worst_finished == MinOf({score_fn(b) : b \in Range(finished)})
             max_decoded_length == max_length - alive[1].initial_length
             length == IF max_new_tokens = {} THEN max_decoded_length
                       ELSE Min(max_decoded_length,
                                CHOOSE m \in max_new_tokens : TRUE)
             best_current ==
                 IF condition = "estimated_score"
                 THEN MaxOf({score_fn(b) : b \in Range(alive)})
                 ELSE MaxOf({ScoreAt(b, length) : b \in Range(alive)})
         IN  worst_finished >= best_current

\* the check under the stop condition of the call
Abandon(alive, finished) == AbandonUnder(stop_condition, alive, finished)

\* filter_beams for one batch element
FilterCurrent(idx) ==
    LET alive    == new_beams(current_beams[idx])
        finished == finished_beams[idx] \o Stopped(current_beams[idx], "done")
    IN  IF Abandon(alive, finished) THEN <<>> ELSE alive

FilterFinished(idx) ==
    finished_beams[idx] \o Stopped(current_beams[idx], "done")

FilterTooLong(idx) ==
    too_long_beams[idx] \o Stopped(current_beams[idx], "length")

\* the flattened alive beams and their owning batch elements
beams   == Concat(current_beams)
indices == Concat([idx \in Batch |-> [k \in DOMAIN current_beams[idx] |-> idx]])

\* lines 154-158: the incremental path is taken, and what it asserts
Incremental == cache # {} /\ \A k \in DOMAIN beams : beams[k].cache # {}

\* the incremental path without the assert on cache_fn
CacheFnMissing_unchecked == FALSE

CacheFnMissing == Incremental /\ cache_fn = {}

\* lines 157-158: the slot and the cached length of every alive beam
cache_mask    == [k \in DOMAIN beams |-> CHOOSE i \in beams[k].cache : TRUE]
cache_lengths == [k \in DOMAIN beams |-> BeamLen(beams[k]) - 1]

\* cache_fn(cache, cache_mask, cache_lengths): row k of the result is the row
\* of `rows` that slot cache_mask[k] names, cut to its last
\* cache_lengths[k] positions
reorder(rows, mask, lengths) ==
    [k \in DOMAIN mask |->
        LET row == rows[mask[k] + 1]
        IN  IF Len(row) <= lengths[k] THEN row
            ELSE SubSeq(row, Len(row) - lengths[k] + 1, Len(row))]

\* lines 176-185: the full-context inputs: the token histories padded on the
\* left to the longest one, the mask of the positions that differ from
\* pad_token_id, and cumsum(pad_mask) - 1 with 0 at the masked positions
longest == MaxOf({BeamLen(beams[k]) : k \in DOMAIN beams})

input_ids ==
    [k \in DOMAIN beams |->
        [p \in 1..(longest - BeamLen(beams[k])) |-> pad_token_id]
            \o beams[k].token_ids]

pad_mask ==
    [k \in DOMAIN beams |->
        [p \in 1..longest |-> input_ids[k][p] # pad_token_id]]

position_ids ==
    [k \in DOMAIN beams |->
        [p \in 1..longest |->
            IF pad_mask[k][p]
            THEN Cardinality({q \in 1..p : pad_mask[k][q]}) - 1
            ELSE 0]]

\* line 192: the cache decode_fn returns: a row per alive beam, holding the
\* history the row was decoded from (the reordered row and the last token
\* on the incremental path, the whole history on the full-context path)
decoded_cache ==
    IF ~use_cache THEN {}
    ELSE {[k \in DOMAIN beams |->
             IF Incremental
             THEN reorder(CHOOSE rows \in cache : TRUE, cache_mask,
                          cache_lengths)[k] \o <<last_token_id(beams[k])>>
             ELSE beams[k].token_ids]}

\* the backfill without the test of return_unfinished
Backfilled_unconditional(idx) ==
    IF Len(finished_beams[idx]) < beam_width
    THEN finished_beams[idx] \o Take(SortDesc(too_long_beams[idx]),
                                     beam_width - Len(finished_beams[idx]))
    ELSE finished_beams[idx]

\* get_outputs: the finished list of an element after the backfill
\* (finished is the list object itself, so extend changes finished_beams)
Backfilled(idx) ==
    LET finished == finished_beams[idx]
    IN  IF return_unfinished /\ Len(finished) < beam_width
        THEN finished \o Take(SortDesc(too_long_beams[idx]),
                              beam_width - Len(finished))
        ELSE finished

\* get_outputs without the cut to beam_width
get_outputs_uncut == [idx \in Batch |-> SortDesc(Backfilled(idx))]

\* get_outputs cutting to beam_width before it sorts
get_outputs_cut_first ==
    [idx \in Batch |-> SortDesc(Take(Backfilled(idx), beam_width))]

get_outputs == [idx \in Batch |-> Take(SortDesc(Backfilled(idx)), beam_width)]

\* ---------------------------------------------------------------- actions
\* initial token sequences: stop_fn reads the last token only
Seeds == {t \in SeqsUpTo({1, EosToken}, MaxSeedLen) :
            \A k \in 1..(Len(t) - 1) : t[k] = 1}

\* the state of the generator before its first step
Created ==
    /\ pc = "start"
    /\ current_beams = <<>>
    /\ finished_beams = <<>>
    /\ too_long_beams = <<>>
    /\ outputs = <<>>
    /\ cache = {}
    /\ results = 0
    /\ decode_calls = 0
    /\ expanded = <<>>
    /\ settled = {}
    /\ nextId = 1

\* calls without logit filters whose decode_fn returns no cache
Init ==
    /\ initial \in SeqsUpTo(Seeds, MaxBatch)
    /\ max_length \in 0..(IF Len(initial) > 1 THEN MaxPairLength
                         ELSE MaxMaxLength)
    /\ beam_width \in 0..MaxWidth
    /\ stop_condition \in StopConditions \cup {"other"}
    /\ max_new_tokens \in {{}} \cup {{m} : m \in 0..MaxNewTok}
    /\ yield_intermediate \in BOOLEAN
    /\ return_unfinished \in BOOLEAN
    /\ logit_fns = <<>>
    /\ cache_fn = {}
    /\ pad_token_id = 0
    /\ use_cache = FALSE
    /\ Created

\* the asserts without the one on stop_condition
ConfigOk_no_stop_condition ==
    /\ \A m \in max_new_tokens : m > 0
    /\ beam_width >= 1
    /\ \A idx \in Batch : Len(initial[idx]) > 0

\* the asserts of lines 44-52 and 60
ConfigOk ==
    /\ \A m \in max_new_tokens : m > 0
    /\ stop_condition \in StopConditions
    /\ beam_width >= 1
    /\ \A idx \in Batch : Len(initial[idx]) > 0

\* lines 44-69: validate the configuration, build the three lists
Start ==
    /\ pc = "start"
    /\ IF ConfigOk
       THEN /\ pc' = "filter"
            /\ current_beams' = [idx \in Batch |-> <<Beam(initial[idx], idx)>>]
            /\ finished_beams' = [idx \in Batch |-> <<>>]
            /\ too_long_beams' = [idx \in Batch |-> <<>>]
            /\ expanded' = [idx \in Batch |-> 0]
            /\ nextId' = batch_size + 1
       ELSE /\ pc' = "error"
            /\ UNCHANGED <<lists, expanded, nextId>>
    /\ UNCHANGED <<config, outputs, cache, results, decode_calls, settled>>

\* lines 150 and 240: beams, indices = filter_beams()
Filter ==
    /\ pc = "filter"
    /\ current_beams' = [idx \in Batch |-> FilterCurrent(idx)]
    /\ finished_beams' = [idx \in Batch |-> FilterFinished(idx)]
    /\ too_long_beams' = [idx \in Batch |-> FilterTooLong(idx)]
    /\ pc' = IF decode_calls > 0 /\ yield_intermediate THEN "yield" ELSE "loop"
    /\ UNCHANGED <<config, outputs, cache, results, decode_calls, expanded,
                   settled, nextId>>

\* the children with log-probabilities taken from the filtered logits
Children_filtered_log_probs(beam, j, c) ==
    [k \in DOMAIN c |->
        LET candidate == IF single THEN beam
                         ELSE Clone(beam, nextId + (j - 1) * beam_width + (k - 1))
        IN  Add(candidate, c[k], log_softmax(FilteredRow(beam))[c[k]])]

\* the children as clones of `beam` whatever beam_width is
Children_always_clone(beam, j, c) ==
    [k \in DOMAIN c |->
        LET candidate == Clone(beam, nextId + (j - 1) * beam_width + (k - 1))
        IN  Add(candidate, c[k], LogProbOf(c[k]))]

\* lines 206-220: the children of `beam`, the j-th alive beam of its batch
\* element, for the valid sampled candidates c; in place when
\* beam_width = 1, clones otherwise
Children(beam, j, c) ==
    [k \in DOMAIN c |->
        LET candidate == IF single THEN beam
                         ELSE Clone(beam, nextId + (j - 1) * beam_width + (k - 1))
        IN  Add(candidate, c[k], LogProbOf(c[k]))]

\* line 204: the place, counted from 0, of the j-th alive beam of batch
\* element idx in the flattened list `beams`
Slot(idx, j) == Len(Concat(SubSeq(current_beams, 1, idx - 1))) + j - 1

\* the candidates with the cache slot counted within the batch element
batch_candidates_slot_in_element(idx, cs) ==
    Concat([j \in DOMAIN current_beams[idx] |->
               Children([current_beams[idx][j] EXCEPT !.cache = {j - 1}],
                        j, cs[j])])

\* lines 204-220: the candidates of batch element idx, where cs[j] are the
\* valid sampled candidates of its j-th alive beam
batch_candidates(idx, cs) ==
    Concat([j \in DOMAIN current_beams[idx] |->
               Children([current_beams[idx][j] EXCEPT !.cache = {Slot(idx, j)}],
                        j, cs[j])])

\* the pruning without the sort by score
Pruned_unsorted(candidates) ==
    Take(Concat([k \in DOMAIN candidates |-> update_fn(candidates[k])]),
         beam_width)

\* lines 222-238: sort, pass through update_fn, keep the first beam_width
Pruned(candidates) ==
    LET sorted == SortDesc(candidates)
    IN  Take(Concat([k \in DOMAIN sorted |-> update_fn(sorted[k])]), beam_width)

\* Clones that are pruned are garbage, and an identity only has to be
\* unique: the surviving clones of a round are numbered by their place in
\* the new alive lists.  A beam extended in place keeps its identity.
Survivors(idx, cs) ==
    LET kept == Pruned(batch_candidates(idx, cs))
    IN  [k \in DOMAIN kept |->
            IF single THEN kept[k]
            ELSE [kept[k] EXCEPT
                     !.id = nextId + (idx - 1) * beam_width + (k - 1)]]

\* lines 192-202: the valid sampled candidates sample_fn can give for the
\* first n alive beams of batch element idx, from the filtered logits
RECURSIVE RowChoices(_, _)
RowChoices(idx, n) ==
    IF n = 0 THEN {<<>>}
    ELSE {Append(cs, c) :
            cs \in RowChoices(idx, n - 1),
            c \in CandSeqs(FilteredRow(current_beams[idx][n]), beam_width)}

\* the alive lists batch element idx can have after a round, over every
\* result of the sample callback for its rows
Expansions(idx) ==
    {Survivors(idx, cs) : cs \in RowChoices(idx, Len(current_beams[idx]))}

\* the choices of one alive list per batch element, for elements 1..n
RECURSIVE Rounds(_)
Rounds(n) ==
    IF n = 0 THEN {<<>>}
    ELSE {Append(r, e) : r \in Rounds(n - 1), e \in Expansions(n)}

\* lines 153-238: one round of the while loop up to the call of filter_beams
Expand ==
    /\ pc = "loop"
    /\ beams # <<>>
    /\ IF CacheFnMissing
       THEN /\ pc' = "error"
            /\ UNCHANGED <<lists, cache, decode_calls, expanded, nextId>>
       ELSE /\ current_beams' \in Rounds(batch_size)
            /\ cache' = decoded_cache
            /\ decode_calls' = decode_calls + 1
            /\ expanded' = [idx \in Batch |->
                               IF current_beams[idx] # <<>>
                               THEN expanded[idx] + 1
                               ELSE expanded[idx]]
            /\ nextId' = IF single THEN nextId
                         ELSE nextId + batch_size * beam_width
            /\ pc' = "filter"
            /\ UNCHANGED <<finished_beams, too_long_beams>>
    /\ UNCHANGED <<config, outputs, results, settled>>

\* the effect of get_outputs on the engine and on the caller
Assemble ==
    /\ outputs' = get_outputs
    /\ finished_beams' = [idx \in Batch |-> Backfilled(idx)]
    /\ results' = results + 1
    /\ settled' = {idx \in Batch : current_beams[idx] = <<>>}
    /\ UNCHANGED <<config, current_beams, too_long_beams, cache, decode_calls,
                   expanded, nextId>>

\* lines 242-243: yield get_outputs()
Yield ==
    /\ pc = "yield"
    /\ Assemble
    /\ pc' = "loop"

\* line 245: return get_outputs()
Return ==
    /\ pc = "loop"
    /\ beams = <<>>
    /\ Assemble
    /\ pc' = "done"

Next == Start \/ Filter \/ Expand \/ Yield \/ Return

Spec == Init /\ [][Next]_vars

\* the calls with a positive max_length that no initial sequence exceeds
InitInRange ==
    /\ Init
    /\ max_length >= 1
    /\ \A idx \in DOMAIN initial : Len(initial[idx]) <= max_length

SpecInRange == InitInRange /\ [][Next]_vars

\* the calls under a score-based stop condition with one initial sequence
\* and room for longer beams
InitScores ==
    /\ initial = <<<<1>>>>
    /\ max_length \in 1..MaxDeepLength
    /\ beam_width \in 1..MaxWidth
    /\ stop_condition \in {"max_score", "estimated_score"}
    /\ max_new_tokens = {}
    /\ yield_intermediate \in BOOLEAN
    /\ return_unfinished \in BOOLEAN
    /\ logit_fns = <<>>
    /\ cache_fn = {}
    /\ pad_token_id = 0
    /\ use_cache = FALSE
    /\ Created

SpecScores == InitScores /\ [][Next]_vars

\* the calls that pass logit filters, with initial sequences that end in
\* either token a filter looks at
InitFilters ==
    /\ initial \in SeqsUpTo({<<1>>, <<2>>, <<1, 2>>}, MaxBatch)
    /\ max_length \in 0..(IF Len(initial) > 1 THEN MaxPairLength
                         ELSE MaxMaxLength)
    /\ beam_width \in 0..MaxWidth
    /\ stop_condition \in StopConditions \cup {"other"}
    /\ max_new_tokens \in {{}} \cup {{m} : m \in 0..MaxNewTok}
    /\ yield_intermediate \in BOOLEAN
    /\ return_unfinished \in BOOLEAN
    /\ logit_fns \in {<<"eos_after_2">>, <<"eos_after_2", "argmax">>,
                       <<"argmax", "eos_after_2">>}
    /\ cache_fn = {}
    /\ pad_token_id = 0
    /\ use_cache = FALSE
    /\ Created

SpecFilters == InitFilters /\ [][Next]_vars

\* the calls whose decode_fn returns a cache, with and without a cache_fn,
\* with initial sequences that tell the rows of the cache apart
InitCache ==
    /\ initial \in SeqsUpTo({<<1>>, <<2>>, <<1, 2>>}, MaxBatch)
    /\ max_length \in 0..(IF Len(initial) > 1 THEN MaxPairLength
                         ELSE MaxMaxLength)
    /\ beam_width \in 0..MaxWidth
    /\ stop_condition \in StopConditions \cup {"other"}
    /\ max_new_tokens \in {{}} \cup {{m} : m \in 0..MaxNewTok}
    /\ yield_intermediate \in BOOLEAN
    /\ return_unfinished \in BOOLEAN
    /\ logit_fns = <<>>
    /\ cache_fn \in {{}, {"reorder"}}
    /\ pad_token_id = 0
    /\ use_cache = TRUE
    /\ Created

SpecCache == InitCache /\ [][Next]_vars

\* the calls whose pad_token_id is a token no sequence holds (0) or the
\* end-of-sequence token, with an initial sequence that holds that token
\* before its end
InitPad ==
    /\ initial \in SeqsUpTo({<<1>>, <<1, 1>>, <<EosToken, 1>>}, MaxBatch)
    /\ max_length \in 0..(IF Len(initial) > 1 THEN MaxPairLength
                         ELSE MaxMaxLength)
    /\ beam_width \in 0..MaxWidth
    /\ stop_condition \in StopConditions \cup {"other"}
    /\ max_new_tokens \in {{}} \cup {{m} : m \in 0..MaxNewTok}
    /\ yield_intermediate \in BOOLEAN
    /\ return_unfinished \in BOOLEAN
    /\ logit_fns = <<>>
    /\ cache_fn = {}
    /\ pad_token_id \in {0, EosToken}
    /\ use_cache = FALSE
    /\ Created

SpecPad == InitPad /\ [][Next]_vars

\* ----------------------------------------------------------------- claims
Ids(s) == {b.id : b \in Range(s)}

Produced == results > 0

\* a result has just been assembled and no list has changed since
Assembled == Produced /\ pc \in {"loop", "done"}

SeedOf(b) == SubSeq(b.token_ids, 1, b.initial_length)

\* C1: every snapshot and the final result has exactly one list per batch
\* element, the idx-th list holds beams grown from the idx-th input only,
\* and no list holds more than beam_width beams.
C1_OutputShape ==
    Produced =>
        /\ Len(outputs) = batch_size
        /\ \A idx \in Batch :
              /\ Len(outputs[idx]) <= beam_width
              /\ \A b \in Range(outputs[idx]) : SeedOf(b) = initial[idx]

\* C1 witness: an element with more finished beams than beam_width whose
\* result is cut to beam_width
C1_Witness ==
    /\ Assembled
    /\ \E idx \in Batch :
          /\ Len(finished_beams[idx]) > beam_width
          /\ Len(outputs[idx]) = beam_width

\* C2: each result list is ordered by score_fn, best first, and no beam of
\* the list scores lower than a beam of the same element's finished list
\* that is not in the result.
C2_RankedBestFirst ==
    Assembled =>
        \A idx \in Batch :
            /\ \A j, k \in DOMAIN outputs[idx] :
                  j < k => score_fn(outputs[idx][j]) >= score_fn(outputs[idx][k])
            /\ \A b \in Range(finished_beams[idx]) :
                  b.id \notin Ids(outputs[idx]) =>
                      \A r \in Range(outputs[idx]) : score_fn(r) >= score_fn(b)

\* C2 witness: a finished beam is left out of a result whose beams have
\* different scores, and it was not the last beam to finish
C2_Witness ==
    /\ Assembled
    /\ \E idx \in Batch :
          /\ Len(outputs[idx]) = 2
          /\ score_fn(outputs[idx][1]) > score_fn(outputs[idx][2])
          /\ \E k \in DOMAIN finished_beams[idx] :
                /\ k < Len(finished_beams[idx])
                /\ finished_beams[idx][k].id \notin Ids(outputs[idx])

\* C3: no beam of a result has more than max_length tokens, and when
\* max_new_tokens is set none has more than max_new_tokens generated tokens.
C3_LengthCaps ==
    Produced =>
        \A idx \in Batch : \A b \in Range(outputs[idx]) :
            /\ BeamLen(b) <= max_length
            /\ \A m \in max_new_tokens : decoded_length(b) <= m

GenuinelyFinished(b) == b.stop_reason = "done" /\ stop_fn(b)

Backfill(s) == SelectSeq(s, LAMBDA b : b.stop_reason = "length")

\* C4: every beam of a result either left the alive set because stop_fn was
\* true for it (stop_reason "done"), or is a beam of the element's too-long
\* list and return_unfinished is enabled; beams stopped by the length caps
\* enter a finished list only when return_unfinished is enabled and that
\* list holds fewer than beam_width beams.
C4_ReturnedAreFinished ==
    /\ [](Produced =>
            \A idx \in Batch : \A b \in Range(outputs[idx]) :
                \/ GenuinelyFinished(b)
                \/ /\ return_unfinished
                   /\ b.stop_reason = "length"
                   /\ ~stop_fn(b)
                   /\ too_long(b)
                   /\ b \in Range(too_long_beams[idx]))
    /\ [][\A idx \in DOMAIN finished_beams \cap DOMAIN finished_beams' :
            Len(Backfill(finished_beams'[idx])) > Len(Backfill(finished_beams[idx]))
                => return_unfinished /\ Len(finished_beams[idx]) < beam_width]_vars

\* C4 witness: a result that holds a genuinely finished beam next to a
\* backfilled too-long beam
C4_Witness ==
    /\ Assembled
    /\ \E idx \in Batch :
          /\ \E b \in Range(outputs[idx]) : GenuinelyFinished(b)
          /\ \E b \in Range(outputs[idx]) : b.stop_reason = "length"

\* the number of rounds the claim allows for batch element idx
RoundCap(idx) ==
    LET by_length == max_length - Len(initial[idx])
    IN  IF max_new_tokens = {} THEN by_length
        ELSE Min(by_length, CHOOSE m \in max_new_tokens : TRUE)

\* C5: the round loop terminates with every alive list empty, and an
\* element with a seed of length s is expanded in at most
\* min(max_length - s, max_new_tokens) rounds.
C5_BoundedRounds ==
    /\ pc = "done" => \A idx \in Batch : current_beams[idx] = <<>>
    /\ pc \in {"filter", "loop", "yield"} => ENABLED Next
    /\ \A idx \in DOMAIN expanded : expanded[idx] <= RoundCap(idx)

NumDone(s) == Cardinality({k \in DOMAIN s : GenuinelyFinished(s[k])})

\* C6: whenever filter_beams clears a non-empty list of surviving alive
\* beams, the element has at least beam_width beams finished by stop_fn.
C6_NoEarlyAbandon ==
    [][pc = "filter" =>
          \A idx \in Batch :
              (new_beams(current_beams[idx]) # <<>> /\ current_beams'[idx] = <<>>)
                  => NumDone(finished_beams'[idx]) >= beam_width]_vars

\* C6 witness: under a score-based stop condition filter_beams is about to
\* abandon alive beams that neither stopped nor are too long
C6_Witness ==
    /\ pc = "filter"
    /\ stop_condition # "max_outputs"
    /\ \E idx \in Batch :
          /\ new_beams(current_beams[idx]) # <<>>
          /\ FilterCurrent(idx) = <<>>
          /\ NumDone(FilterFinished(idx)) >= beam_width

\* the configurations the claim calls invalid
Rejected ==
    \/ stop_condition \notin {"max_score", "estimated_score", "max_outputs"}
    \/ \E m \in max_new_tokens : m <= 0
    \/ beam_width < 1
    \/ \E idx \in Batch : initial[idx] = <<>>

\* C7: a call with an invalid configuration fails before the first decode
\* call and produces no snapshot and no result.
C7_RejectedBeforeDecode ==
    Rejected =>
        /\ pc \in {"start", "error"}
        /\ decode_calls = 0
        /\ results = 0
        /\ current_beams = <<>>

\* C7 witness: a call that failed on an empty initial sequence only
C7_Witness ==
    /\ pc = "error"
    /\ stop_condition \in StopConditions
    /\ beam_width >= 1
    /\ \A m \in max_new_tokens : m > 0
    /\ \E idx \in Batch : initial[idx] = <<>>

\* C8: a call with max_length <= 0 fails fast and returns no result.
C8_MaxLengthValidated ==
    max_length <= 0 => pc # "done" /\ results = 0

\* C9: no beam is in two of an element's three lists or twice in one list.
C9_ExclusiveOwnership ==
    \A idx \in DOMAIN current_beams :
        LET held == current_beams[idx] \o finished_beams[idx]
                        \o too_long_beams[idx]
        IN  \A j, k \in DOMAIN held : j # k => held[j].id # held[k].id

\* C10: an element without alive beams keeps an empty alive list, and every
\* later snapshot or result reports for it the list the previous one did.
C10_StableOnceDone ==
    [][/\ \A idx \in DOMAIN current_beams \cap DOMAIN current_beams' :
             current_beams[idx] = <<>> => current_beams'[idx] = <<>>
       /\ (Produced /\ results' > results)
             => \A idx \in settled : outputs'[idx] = outputs[idx]]_vars

Held(idx) == current_beams[idx] \o finished_beams[idx] \o too_long_beams[idx]

\* C11: with beam_width = 1 an element never has more than one alive beam,
\* no Beam object is ever created beyond the seeds (no clone), and the alive
\* beam is the element's seed object extended by exactly one token in each
\* round the element was expanded.
C11_SingleBeamInPlace ==
    (beam_width = 1 /\ pc \notin {"start", "error"}) =>
        /\ nextId = batch_size + 1
        /\ \A idx \in Batch :
              /\ Len(current_beams[idx]) <= 1
              /\ \A b \in Range(Held(idx)) : b.id = idx
              /\ \A b \in Range(current_beams[idx]) :
                    decoded_length(b) = expanded[idx]

\* C11 witness: a beam_width = 1 run whose single beam has just been
\* extended for the second time
C11_Witness ==
    /\ beam_width = 1
    /\ pc = "filter"
    /\ \E idx \in Batch :
          /\ expanded[idx] = 2
          /\ Len(current_beams[idx]) = 1
          /\ current_beams[idx][1].id = idx

\* C12: under stop condition "max_outputs", after a filter step an element
\* with at least beam_width finished beams has an empty alive list, so the
\* round that follows decodes none of its beams.
C12_MaxOutputsStops ==
    (stop_condition = "max_outputs" /\ pc \in {"loop", "yield"}) =>
        \A idx \in Batch :
            NumDone(finished_beams[idx]) >= beam_width
                => current_beams[idx] = <<>>

\* C12 witness: under "max_outputs" filter_beams meets an element whose
\* finished list reaches beam_width while beams of it are still alive
C12_Witness ==
    /\ pc = "filter"
    /\ stop_condition = "max_outputs"
    /\ beam_width = 2
    /\ \E idx \in Batch :
          /\ new_beams(current_beams[idx]) # <<>>
          /\ NumDone(FilterFinished(idx)) >= beam_width

\* C13: wherever filter_beams would abandon an element under "max_score" it
\* would abandon it under "estimated_score" too, so an element is expanded
\* under "max_score" in at least as many rounds as under "estimated_score".
C13_MaxScoreMoreConservative ==
    pc = "filter" =>
        \A idx \in Batch :
            LET alive    == new_beams(current_beams[idx])
                finished == FilterFinished(idx)
            IN  AbandonUnder("max_score", alive, finished)
                    => AbandonUnder("estimated_score", alive, finished)

\* C13 witness: a "max_score" run abandons alive beams, and the projected
\* score of each is not below its current score
C13_Witness ==
    /\ pc = "filter"
    /\ stop_condition = "max_score"
    /\ \E idx \in Batch :
          LET alive == new_beams(current_beams[idx])
          IN  /\ AbandonUnder("max_score", alive, FilterFinished(idx))
              /\ \A b \in Range(alive) :
                    /\ decoded_length(b) > 0
                    /\ ScoreAt(b, RoundCap(idx)) >= score_fn(b)

\* C13 witness of the case that decides: an element with beam_width
\* finished beams that "estimated_score" does not abandon
C13_Undecided ==
    /\ pc = "filter"
    /\ \E idx \in Batch :
          LET alive == new_beams(current_beams[idx])
          IN  /\ alive # <<>>
              /\ Len(FilterFinished(idx)) >= beam_width
              /\ ~AbandonUnder("estimated_score", alive, FilterFinished(idx))

\* C13 witness of the strict case: "estimated_score" abandons where
\* "max_score" keeps expanding
C13_Strict ==
    /\ pc = "filter"
    /\ \E idx \in Batch :
          LET alive == new_beams(current_beams[idx])
          IN  /\ AbandonUnder("estimated_score", alive, FilterFinished(idx))
              /\ ~AbandonUnder("max_score", alive, FilterFinished(idx))

AllMasked(s) == \A x \in DOMAIN s : s[x].logit = NegInf

\* C14: a beam whose sampled candidates all have logit -inf gets no child,
\* whatever is sampled for the other beams of its element; an element whose
\* beams all get none has an empty alive list after the round; and a run
\* fails only in the checks before the first decode call or for a missing
\* cache_fn, never for masked candidates.
C14_MaskedBeamHasNoChildren ==
    /\ pc = "error" => (decode_calls = 0 \/ CacheFnMissing)
    /\ (pc = "loop" /\ ~CacheFnMissing) =>
          \A idx \in Batch :
              /\ \A j \in DOMAIN current_beams[idx] :
                    \A s \in Samples(FilteredRow(current_beams[idx][j]),
                                     beam_width) :
                        AllMasked(s) =>
                            Children(current_beams[idx][j], j, valid_ids(s))
                                = <<>>
              /\ \A cs \in RowChoices(idx, Len(current_beams[idx])) :
                    /\ \A j \in DOMAIN cs :
                          cs[j] = <<>> =>
                              \A c \in Range(batch_candidates(idx, cs)) :
                                  c.cache # {Slot(idx, j)}
                    /\ (\A j \in DOMAIN cs : cs[j] = <<>>)
                          => Survivors(idx, cs) = <<>>

\* C14 witness: a finished run in which the seed of an element was decoded
\* once and got no child: all three lists of the element are empty and its
\* result holds no beam
C14_Witness ==
    /\ pc = "done"
    /\ \E idx \in Batch :
          /\ expanded[idx] = 1
          /\ Held(idx) = <<>>
          /\ Len(outputs[idx]) < beam_width

Accepted(c) == update_fn(c) # <<>>

\* C18: after an expansion round an element's alive list holds at most
\* beam_width beams, each a candidate of the round that update_fn accepted,
\* and an accepted candidate is left out only when beam_width candidates
\* scoring at least as high are kept.
C18_KeepsBestAccepted ==
    /\ pc = "filter" =>
          \A idx \in Batch :
              /\ Len(current_beams[idx]) <= beam_width
              /\ \A b \in Range(current_beams[idx]) : Accepted(b)
    /\ (pc = "loop" /\ ~CacheFnMissing) =>
          \A idx \in Batch :
              \A cs \in RowChoices(idx, Len(current_beams[idx])) :
                  LET candidates == batch_candidates(idx, cs)
                      kept       == Pruned(candidates)
                  IN  /\ Len(kept) <= beam_width
                      /\ \A b \in Range(kept) :
                            b \in Range(candidates) /\ Accepted(b)
                      /\ \A c \in Range(candidates) :
                            (Accepted(c) /\ c \notin Range(kept)) =>
                                /\ Len(kept) = beam_width
                                /\ \A b \in Range(kept) :
                                      score_fn(b) >= score_fn(c)

\* C18 witness: a round after the first in which update_fn rejects a
\* candidate that scores above a kept one, and an accepted candidate is
\* left out
C18_Witness ==
    /\ pc = "loop"
    /\ decode_calls > 0
    /\ \E idx \in Batch :
          \E cs \in RowChoices(idx, Len(current_beams[idx])) :
              LET candidates == batch_candidates(idx, cs)
                  kept       == Pruned(candidates)
              IN  /\ \E c \in Range(candidates), b \in Range(kept) :
                        ~Accepted(c) /\ score_fn(c) > score_fn(b)
                  /\ \E c \in Range(candidates) :
                        /\ Accepted(c)
                        /\ c \notin Range(kept)

AllBeams == UNION {Range(Held(idx)) : idx \in DOMAIN current_beams}

Decoded(b) == (b.initial_length + 1)..BeamLen(b)

\* the beam that was decoded when token k of b was sampled
ParentAt(b, k) == Beam(SubSeq(b.token_ids, 1, k - 1), 0)

\* the tokens the filters of the call leave after token `prev`, filter by
\* filter in list order
LeftInOrder(prev) ==
    IF logit_fns = <<>> THEN Tokens
    ELSE IF logit_fns = <<"eos_after_2">>
         THEN (IF prev = 2 THEN {EosToken} ELSE Tokens)
    ELSE IF logit_fns = <<"eos_after_2", "argmax">>
         THEN (IF prev = 2 THEN {EosToken} ELSE {1})
    ELSE IF logit_fns = <<"argmax", "eos_after_2">>
         THEN (IF prev = 2 THEN {} ELSE {1})
    ELSE {}

\* C17 as stated: the log-probability appended with each decoded token is
\* the log-softmax of the logits after all logit filters.
C17_LogProbsAfterFilters ==
    \A b \in AllBeams : \A k \in Decoded(b) :
        b.log_probs[k] =
            log_softmax(Filtered(logit_fns, decode_logits,
                                 ParentAt(b, k)))[b.token_ids[k]]

\* C17 amended: every decoded token is one the logit filters, applied in
\* list order to the decode logits, left for sampling, and the
\* log-probability appended with it is the log-softmax of the decode logits
\* before any filter.
C17_LogProbsBeforeFilters ==
    \A b \in AllBeams : \A k \in Decoded(b) :
        /\ b.token_ids[k] \in LeftInOrder(b.token_ids[k - 1])
        /\ b.log_probs[k] = log_softmax(decode_logits)[b.token_ids[k]]

\* C17 witness: with logit filters, a beam was extended by the only token
\* the filters left, and the appended log-probability is not 0
C17_Witness ==
    /\ logit_fns # <<>>
    /\ \E b \in AllBeams : \E k \in Decoded(b) :
          /\ b.token_ids[k - 1] = 2
          /\ b.token_ids[k] = EosToken
          /\ b.log_probs[k] = -1

\* C15: a round that takes the incremental path without a cache_fn fails
\* there: no decode call is made in it, no list changes, nothing is
\* produced, and the failed run takes no further step.
C15_MissingCacheFnFails ==
    /\ [][(pc = "loop" /\ beams # <<>> /\ Incremental /\ cache_fn = {})
            => (/\ pc' = "error"
                /\ decode_calls' = decode_calls
                /\ results' = results
                /\ lists' = lists)]_vars
    /\ [][pc # "error"]_vars

\* C15 witness: a run that failed after a decode call, on the incremental
\* path without a cache_fn
C15_Witness ==
    /\ pc = "error"
    /\ decode_calls = 1
    /\ beams # <<>>
    /\ Incremental
    /\ cache_fn = {}

\* C16: in a round on the incremental path, the slot of the i-th alive beam
\* of the flattened list names the row of its parent in the previous
\* round's list: row i of the reordered cache holds the token history of
\* beam i without its last token.
C16_SlotsFollowParents ==
    (pc = "loop" /\ beams # <<>> /\ Incremental /\ cache_fn # {}) =>
        LET rows == CHOOSE c \in cache : TRUE
        IN  /\ \A k \in DOMAIN beams : cache_mask[k] + 1 \in DOMAIN rows
            /\ \A k \in DOMAIN beams :
                  reorder(rows, cache_mask, cache_lengths)[k]
                      = SubSeq(beams[k].token_ids, 1, BeamLen(beams[k]) - 1)

\* C16 witness: an incremental round of a run that clones, in which a beam
\* is not in the row its parent had
C16_Witness ==
    /\ pc = "loop"
    /\ Incremental
    /\ cache_fn # {}
    /\ beam_width > 1
    /\ \E k \in DOMAIN beams : cache_mask[k] # k - 1

\* C16 witness for beam_width = 1: an incremental round in which an element
\* has left the flattened list and the beam behind it has moved up
C16_WitnessInPlace ==
    /\ pc = "loop"
    /\ Incremental
    /\ cache_fn # {}
    /\ beam_width = 1
    /\ \E k \in DOMAIN beams : cache_mask[k] # k - 1

\* the left padding of row k of the full-context inputs
Padding(k) == longest - BeamLen(beams[k])

\* C19: on the full-context path the mask row of every alive beam is true
\* at the positions of the beam's own tokens and false at the left padding,
\* and the position id of the beam's j-th token, counted from 0, is j.
C19_MaskAndPositions ==
    (pc = "loop" /\ beams # <<>> /\ ~Incremental) =>
        \A k \in DOMAIN beams : \A p \in 1..longest :
            /\ pad_mask[k][p] = (p > Padding(k))
            /\ p > Padding(k) => position_ids[k][p] = p - Padding(k) - 1

\* C20: assembling a snapshot or the final result leaves the alive, the
\* finished and the too-long lists of every element as they were.
C20_AssemblingIsPure ==
    [][results' > results => lists' = lists]_vars

====
